---- MODULE Spec2Model ----
(***************************************************************************)
(* A model of mail-confirm (src/src/index.js): the MailConfirm class, its  *)
(* three gates (pattern, MX, SMTP mailbox probe) and the socket event      *)
(* handlers of resolveSmtpMailbox.                                         *)
(*                                                                         *)
(* JavaScript strings that the code takes apart (the email address, the    *)
(* deny-list keywords, the server's reply data) are sequences of           *)
(* one-character strings.  Strings the code only copies (exchange host     *)
(* names, result messages) are TLA+ strings.                               *)
(***************************************************************************)
EXTENDS Integers, Sequences, FiniteSets, TLC

VARIABLES
    state,          \* this.state of the MailConfirm instance (index.js:26-42)
    pc,             \* position of check(): "constructed", "awaitMx", "awaitProbe", "returned", "thrown"
    thrown,         \* message of the Error check() threw, "" if none
    mxCalls,        \* number of calls of _resolveMx (DNS queries issued)
    dns,            \* history: <<>> until dns.resolveMx answered, then <<its outcome>>
    connections,    \* hosts net.createConnection was called with, in order
    promise,        \* the promise of resolveSmtpMailbox: "none", "pending", "resolved", "rejected"
    step,           \* let step (index.js:112)
    smtpMessages,   \* let smtpMessages: the probe's transcript array (index.js:114)
    written,        \* the commands written to the socket, in order
    writtenAt,      \* history: for each data event, how many commands had been written when it arrived
    endCalls,       \* number of calls of smtp.end
    finishCbs,      \* callbacks passed to smtp.end that have not run yet, in order
    sock,           \* the socket: "none", "open", "destroyed"
    timedOut,       \* the socket's 'timeout' event has been emitted
    nData,          \* number of data events delivered so far
    errored,        \* history: "no", or when the socket's 'error' event came: "awaiting" (end not yet called) or "afterEnd"
    calls,          \* number of calls of check() on the instance
    oldMessages,    \* the transcript array of the previous run's probe, which state.smtpMessages may still refer to
    pair            \* two further instances running their probes side by side (<<>> when there are none)

vars == <<state, pc, thrown, mxCalls, dns, connections, promise, step, smtpMessages,
          written, writtenAt, endCalls, finishCbs, sock, timedOut, nData,
          errored, calls, oldMessages, pair>>

\* what only a further call of check() and the side-by-side instances change
moreVars == <<oldMessages, pair>>

probeVars == <<connections, promise, step, smtpMessages, written, writtenAt,
               endCalls, finishCbs, sock, timedOut, nData, errored>>

(***************************************************************************)
(* Bounds of the model.                                                    *)
(***************************************************************************)
\* data events delivered to the instance's probes
MaxData == 4
\* MX records in one DNS answer
MaxMx == 2
\* length of the addresses enumerated for the pattern validator
MaxLen == 6
\* calls of check() on one instance
MaxChecks == 2
\* data events delivered to each of two instances running side by side
MaxPairData == 3

(***************************************************************************)
(* Strings.                                                                *)
(***************************************************************************)
Range(s) == {s[i] : i \in 1..Len(s)}

\* String.prototype.substring(from, to) with 0-based from, exclusive to, clamped to the length.
Substring(s, from, to) == SubSeq(s, from + 1, IF to > Len(s) THEN Len(s) ELSE to)

\* position of the first occurrence of character c in s, 0 if there is none
FirstPos(s, c) ==
    IF \E i \in 1..Len(s) : s[i] = c
    THEN CHOOSE i \in 1..Len(s) : s[i] = c /\ \A j \in 1..(i - 1) : s[j] # c
    ELSE 0

\* String.prototype.split(c) for a one-character separator: the pieces between the separators.
RECURSIVE Split(_, _)
Split(s, c) ==
    LET p == FirstPos(s, c) IN
    IF p = 0 THEN <<s>>
    ELSE <<SubSeq(s, 1, p - 1)>> \o Split(SubSeq(s, p + 1, Len(s)), c)

\* Array.prototype.indexOf(x): the 0-based index of the first element equal to x, or -1.
RECURSIVE IndexOfFrom(_, _, _)
IndexOfFrom(arr, x, i) ==
    IF i > Len(arr) THEN -1
    ELSE IF arr[i] = x THEN i - 1
    ELSE IndexOfFrom(arr, x, i + 1)

IndexOf(arr, x) == IndexOfFrom(arr, x, 1)

(***************************************************************************)
(* The regular expression of resolvePattern (index.js:56), run as a        *)
(* matcher: every sub-pattern maps the set of positions a match may start  *)
(* at to the set of positions it may end at (position p is "before s[p]"). *)
(***************************************************************************)
Lower == {"a","b","c","d","e","f","g","h","i","j","k","l","m",
          "n","o","p","q","r","s","t","u","v","w","x","y","z"}
Upper == {"A","B","C","D","E","F","G","H","I","J","K","L","M",
          "N","O","P","Q","R","S","T","U","V","W","X","Y","Z"}
Digit == {"0","1","2","3","4","5","6","7","8","9"}

\* \s (the ASCII part) and the line terminators that . does not match
WhiteSpace == {" ", "\t", "\n", "\r", "\f"}
LineTerminator == {"\n", "\r"}

\* the characters [^<>()\[\]\\.,;:\s@"] excludes
AtomExcluded == {"<", ">", "(", ")", "[", "]", "\\", ".", ",", ";", ":", "@", "\""} \cup WhiteSpace

IsAtomChar(c) == c \notin AtomExcluded
\* [a-zA-Z\-0-9]
IsLabelChar(c) == c \in Lower \cup Upper \cup Digit \cup {"-"}
\* [a-zA-Z]
IsAlpha(c) == c \in Lower \cup Upper
\* [0-9]
IsDigit(c) == c \in Digit
\* .
IsAnyChar(c) == c \notin LineTerminator

\* a literal character c
Lit(s, c, P) == {p + 1 : p \in {q \in P : q <= Len(s) /\ s[q] = c}}

\* whether character c is in the character class named cls
InClass(cls, c) ==
    CASE cls = "atom" -> IsAtomChar(c)
      [] cls = "label" -> IsLabelChar(c)
      [] cls = "alpha" -> IsAlpha(c)
      [] cls = "digit" -> IsDigit(c)
      [] cls = "any" -> IsAnyChar(c)

\* X{lo,hi} for the character class X named cls (hi = -1: no upper limit)
Repeat(s, cls, lo, hi, P) ==
    {q \in 1..(Len(s) + 1) :
        \E p \in P : /\ p + lo <= q
                     /\ (hi = -1 \/ q <= p + hi)
                     /\ \A k \in p..(q - 1) : InClass(cls, s[k])}

\* [^<>()\[\]\\.,;:\s@"]+
AtomPlus(s, P) == Repeat(s, "atom", 1, -1, P)

\* (\.[^<>()\[\]\\.,;:\s@"]+)*
RECURSIVE DotAtomStar(_, _)
DotAtomStar(s, P) ==
    LET N == AtomPlus(s, Lit(s, ".", P)) IN
    IF N \subseteq P THEN P ELSE DotAtomStar(s, P \cup N)

\* (".+")
Quoted(s, P) == Lit(s, "\"", Repeat(s, "any", 1, -1, Lit(s, "\"", P)))

\* (([^<>()\[\]\\.,;:\s@"]+(\.[^<>()\[\]\\.,;:\s@"]+)*)|(".+"))
LocalPart(s, P) == DotAtomStar(s, AtomPlus(s, P)) \cup Quoted(s, P)

\* [0-9]{1,3}
Octet(s, P) == Repeat(s, "digit", 1, 3, P)

\* (\[[0-9]{1,3}\.[0-9]{1,3}\.[0-9]{1,3}\.[0-9]{1,3}])
IpLiteral(s, P) ==
    Lit(s, "]",
      Octet(s, Lit(s, ".",
        Octet(s, Lit(s, ".",
          Octet(s, Lit(s, ".",
            Octet(s, Lit(s, "[", P)))))))))

\* ([a-zA-Z\-0-9]+\.)+
RECURSIVE LabelDotPlusFrom(_, _, _)
LabelDotPlusFrom(s, P, Acc) ==
    LET N == Lit(s, ".", Repeat(s, "label", 1, -1, P)) IN
    IF N \subseteq Acc THEN Acc ELSE LabelDotPlusFrom(s, N, Acc \cup N)

LabelDotPlus(s, P) == LabelDotPlusFrom(s, P, {})

\* (([a-zA-Z\-0-9]+\.)+[a-zA-Z]{2,})
HostName(s, P) == Repeat(s, "alpha", 2, -1, LabelDotPlus(s, P))

\* regex.test(s): ^ local @ (ip-literal | host-name) $
RegexTest(s) ==
    LET afterAt == Lit(s, "@", LocalPart(s, {1})) IN
    (Len(s) + 1) \in (IpLiteral(s, afterAt) \cup HostName(s, afterAt))

\* MailConfirm.resolvePattern (index.js:54-60)
resolvePatternAnd(emailAddress, invalidMailboxKeywords) ==
    LET mailbox == Split(emailAddress, "@")[1] IN
    RegexTest(emailAddress) /\ IndexOf(invalidMailboxKeywords, mailbox) = -1

resolvePattern(emailAddress, invalidMailboxKeywords) ==
    LET mailbox == Split(emailAddress, "@")[1] IN
    RegexTest(emailAddress) \/ IndexOf(invalidMailboxKeywords, mailbox) = -1

(***************************************************************************)
(* Numbers.                                                                *)
(***************************************************************************)
\* NaN: parseInt of the first three characters of a reply is never below -99,
\* so this integer stands for no parsed number.
NaN == -1000

\* a > b and a === b on JavaScript numbers: false whenever an operand is NaN
NumGt(a, b) == a # NaN /\ b # NaN /\ a > b
NumEq(a, b) == a # NaN /\ b # NaN /\ a = b

DigitChars == <<"0","1","2","3","4","5","6","7","8","9">>
DigitVal(c) == (CHOOSE i \in 1..10 : DigitChars[i] = c) - 1

\* the value of the decimal digits of s from position i on, acc being the value so far
RECURSIVE DigitsValue(_, _, _)
DigitsValue(s, i, acc) ==
    IF i <= Len(s) /\ IsDigit(s[i])
    THEN DigitsValue(s, i + 1, acc * 10 + DigitVal(s[i]))
    ELSE acc

RECURSIVE SkipWhiteSpace(_, _)
SkipWhiteSpace(s, i) ==
    IF i <= Len(s) /\ s[i] \in WhiteSpace THEN SkipWhiteSpace(s, i + 1) ELSE i

\* parseInt(s) for decimal input: leading white space, an optional sign, then the
\* longest run of digits; NaN when there is no digit.
ParseInt(s) ==
    LET i == SkipWhiteSpace(s, 1)
        neg == i <= Len(s) /\ s[i] = "-"
        j == IF i <= Len(s) /\ s[i] \in {"-", "+"} THEN i + 1 ELSE i
    IN  IF j <= Len(s) /\ IsDigit(s[j])
        THEN (IF neg THEN 0 - DigitsValue(s, j, 0) ELSE DigitsValue(s, j, 0))
        ELSE NaN

(***************************************************************************)
(* MX resolution.                                                          *)
(***************************************************************************)
\* Array.prototype.sort((a, b) => a.priority - b.priority) on a short array:
\* insertion sort, which keeps the order of records of equal priority.
RECURSIVE InsertByPriority(_, _)
InsertByPriority(sorted, r) ==
    IF sorted = <<>> THEN <<r>>
    ELSE IF sorted[Len(sorted)].priority - r.priority > 0
         THEN InsertByPriority(SubSeq(sorted, 1, Len(sorted) - 1), r) \o <<sorted[Len(sorted)]>>
         ELSE sorted \o <<r>>

RECURSIVE SortFrom(_, _, _)
SortFrom(arr, i, sorted) ==
    IF i > Len(arr) THEN sorted
    ELSE SortFrom(arr, i + 1, InsertByPriority(sorted, arr[i]))

SortByPriority(arr) == SortFrom(arr, 1, <<>>)

\* MailConfirm.resolveMx (index.js:75-83) applied to the outcome of dns.resolveMx:
\* answer.err is the lookup failing, answer.records the records it found.
\* The result says whether the returned promise rejects (threw) and its value.
resolveMxUnsorted(answer) ==
    IF answer.err THEN [threw |-> FALSE, value |-> <<>>]
    ELSE [threw |-> FALSE, value |-> answer.records]

resolveMxRethrow(answer) ==
    IF answer.err THEN [threw |-> TRUE, value |-> <<>>]
    ELSE [threw |-> FALSE, value |-> SortByPriority(answer.records)]

resolveMx(answer) ==
    IF answer.err THEN [threw |-> FALSE, value |-> <<>>]
    ELSE [threw |-> FALSE, value |-> SortByPriority(answer.records)]

(***************************************************************************)
(* The instance.                                                           *)
(***************************************************************************)
\* timeout || 2000 (index.js:29)
DefaultTimeout == 2000
\* mailFrom || 'email@example.org' (index.js:31)
DefaultMailFrom == <<"e","m","a","i","l","@","e","x","a","m","p","l","e",".","o","r","g">>
\* emailAddress.split('@')[1] when the address holds no '@'
Undefined == <<"undefined">>

PatternInvalidResult == "Email pattern is invalid."
MxInvalidResult == "Email server is invalid or not available."
MxFailedError == "MX record check failed."
MailboxValidResult == "Mailbox is valid."
MailboxInvalidResult == "Mailbox is invalid."
MailboxUnknownResult == "Could not validate mailbox."
MailboxFailedError == "Mailbox check failed."

\* constructor (index.js:25-43).  An option that is left out is given as the
\* falsy value of its type (0, "", <<>>); state.smtpMessages holds a reference:
\* "own" is the constructor's empty array, "probe" the array the probe fills.
Constructor(cfg) ==
    LET parts == Split(cfg.emailAddress, "@") IN
    [ emailAddress |-> cfg.emailAddress,
      timeout |-> IF cfg.timeout = 0 THEN DefaultTimeout ELSE cfg.timeout,
      invalidMailboxKeywords |-> cfg.invalidMailboxKeywords,
      mailFrom |-> IF cfg.mailFrom = <<>> THEN DefaultMailFrom ELSE cfg.mailFrom,
      mailbox |-> parts[1],
      hostname |-> IF Len(parts) >= 2 THEN parts[2] ELSE Undefined,
      mxRecords |-> <<>>,
      smtpMessages |-> "own",
      isValidPattern |-> FALSE,
      isValidMx |-> FALSE,
      isValidMailbox |-> FALSE,
      result |-> "" ]

\* the array state.smtpMessages refers to
StateSmtpMessages ==
    CASE state.smtpMessages = "probe" -> smtpMessages
      [] state.smtpMessages = "old" -> oldMessages
      [] OTHER -> <<>>

(***************************************************************************)
(* Inputs.                                                                 *)
(***************************************************************************)
AddrValid == <<"a","@","b",".","c","c">>
AddrDenied == <<"n","@","b",".","c","c">>
AddrBad == <<"a","@","b">>
AddrBadDenied == <<"n","@","b">>
AddrNoAt == <<"n">>
Sender == <<"s","@","t",".","u","u">>

\* the configurations an instance is constructed with
Configs ==
    { [emailAddress |-> AddrValid, invalidMailboxKeywords |-> <<>>, timeout |-> 0, mailFrom |-> <<>>],
      [emailAddress |-> AddrDenied, invalidMailboxKeywords |-> <<<<"n">>>>, timeout |-> 500, mailFrom |-> Sender],
      [emailAddress |-> AddrBad, invalidMailboxKeywords |-> <<<<"n">>>>, timeout |-> 0, mailFrom |-> <<>>],
      [emailAddress |-> AddrBadDenied, invalidMailboxKeywords |-> <<<<"x">>, <<"n">>>>, timeout |-> 0, mailFrom |-> <<>>],
      [emailAddress |-> AddrNoAt, invalidMailboxKeywords |-> <<<<"n">>>>, timeout |-> 0, mailFrom |-> Sender] }

\* the MX records a DNS answer is made of
MxPool ==
    { [priority |-> 10, exchange |-> <<"m","1">>],
      [priority |-> 20, exchange |-> <<"m","2">>],
      [priority |-> 10, exchange |-> <<"m","3">>] }

\* sequences of distinct elements of S, of length at most n
RECURSIVE SeqsUpTo(_, _)
SeqsUpTo(S, n) ==
    IF n = 0 THEN {<<>>}
    ELSE LET shorter == SeqsUpTo(S, n - 1) IN
         shorter \cup {Append(q, x) : q \in {t \in shorter : Len(t) = n - 1},
                                      x \in S} 

DistinctSeqsUpTo(S, n) ==
    {q \in SeqsUpTo(S, n) : \A i, j \in 1..Len(q) : i # j => q[i] # q[j]}

\* the outcomes of dns.resolveMx: an error, or the records in the order DNS gave them
DnsAnswers ==
    {[err |-> TRUE, records |-> <<>>]}
    \cup {[err |-> FALSE, records |-> q] : q \in DistinctSeqsUpTo(MxPool, MaxMx)}

\* the chunks a 'data' event delivers
Reply220 == <<"2","2","0"," ","m","x">>
Reply250 == <<"2","5","0"," ","O","K">>
Reply200 == <<"2","0","0">>
ReplyText == <<"O","K">>
Replies == {Reply220, Reply250, Reply200, ReplyText}

(***************************************************************************)
(* The SMTP probe: resolveSmtpMailbox (index.js:102-148).                  *)
(***************************************************************************)
\* const commands (index.js:105-109); a command is its verb and its argument
Commands(host, mailFrom, emailAddress) ==
    << [verb |-> "HELO", arg |-> host],
       [verb |-> "MAIL FROM", arg |-> mailFrom],
       [verb |-> "RCPT TO", arg |-> emailAddress] >>

\* the commands of the running probe
commands == Commands(state.mxRecords[1].exchange, state.mailFrom, state.emailAddress)

\* const stepMax = commands.length - 1 (index.js:111)
stepMaxShort == Len(commands) - 2

stepMax == Len(commands) - 1

\* a continuation of check() is queued as a microtask: it runs before any other event
MicrotaskPending == pc = "awaitProbe" /\ promise \in {"resolved", "rejected"}

\* smtp.end(cb): the callback runs on 'finish'.  A second call of end may or may
\* not keep its callback (Writable.end ignores "unnecessary end() calls" in some
\* releases of Node and queues the callback in others).
SmtpEnd(cb) ==
    /\ endCalls' = endCalls + 1
    /\ IF endCalls = 0
       THEN finishCbs' = Append(finishCbs, cb)
       ELSE finishCbs' \in {finishCbs, Append(finishCbs, cb)}

\* the promise after callback cb of smtp.end ran: resolve and reject settle a pending promise only
Settle(p, cb) ==
    IF p # "pending" THEN p
    ELSE IF cb = "resolve" THEN "resolved" ELSE "rejected"

RECURSIVE SettleAll(_, _)
SettleAll(p, cbs) ==
    IF cbs = <<>> THEN p ELSE SettleAll(Settle(p, Head(cbs)), Tail(cbs))

\* smtp.on('next', ...) (index.js:119-128)
OnNextSkip ==
    IF step < stepMax
    THEN /\ written' = Append(written, commands[step + 2])
         /\ step' = step + 1
         /\ UNCHANGED <<endCalls, finishCbs>>
    ELSE /\ SmtpEnd("resolve")
         /\ UNCHANGED <<written, step>>

OnNextNoElse ==
    /\ IF step < stepMax
       THEN /\ written' = Append(written, commands[step + 1])
            /\ step' = step + 1
       ELSE UNCHANGED <<written, step>>
    /\ SmtpEnd("resolve")

OnNext ==
    IF step < stepMax
    THEN /\ written' = Append(written, commands[step + 1])
         /\ step' = step + 1
         /\ UNCHANGED <<endCalls, finishCbs>>
    ELSE /\ SmtpEnd("resolve")
         /\ UNCHANGED <<written, step>>

\* if (status > 200) (index.js:143)
ProceedsFrom200(status) == status # NaN /\ status >= 200

Proceeds(status) == NumGt(status, 200)

\* smtp.on('data', ...) (index.js:136-146)
OnData(data) ==
    /\ sock = "open"
    /\ ~MicrotaskPending
    /\ nData < MaxData
    /\ nData' = nData + 1
    /\ LET status == ParseInt(Substring(data, 0, 3)) IN
       /\ smtpMessages' = Append(smtpMessages,
                            [command |-> commands[step + 1], message |-> data, status |-> status])
       /\ writtenAt' = Append(writtenAt, Len(written))
       /\ IF Proceeds(status)
          THEN OnNext
          ELSE UNCHANGED <<written, step, endCalls, finishCbs>>
    /\ UNCHANGED <<state, pc, thrown, mxCalls, dns, calls, moreVars, connections, promise, sock, timedOut, errored>>

\* smtp.on('error', ...) (index.js:130-134): the socket emits 'error' once and is destroyed
OnErrorNoEnd ==
    /\ sock = "open"
    /\ ~MicrotaskPending
    /\ sock' = "destroyed"
    /\ errored' = IF endCalls = 0 THEN "awaiting" ELSE "afterEnd"
    /\ promise' = Settle(promise, "reject")
    /\ UNCHANGED <<state, pc, thrown, mxCalls, dns, calls, moreVars, connections, step, smtpMessages,
                   written, writtenAt, endCalls, finishCbs, timedOut, nData>>

OnErrorResolve ==
    /\ sock = "open"
    /\ ~MicrotaskPending
    /\ sock' = "destroyed"
    /\ errored' = IF endCalls = 0 THEN "awaiting" ELSE "afterEnd"
    /\ SmtpEnd("resolve")
    /\ UNCHANGED <<state, pc, thrown, mxCalls, dns, calls, moreVars, connections, promise, step, smtpMessages,
                   written, writtenAt, timedOut, nData>>

OnError ==
    /\ sock = "open"
    /\ ~MicrotaskPending
    /\ sock' = "destroyed"
    /\ errored' = IF endCalls = 0 THEN "awaiting" ELSE "afterEnd"
    /\ SmtpEnd("reject")
    /\ UNCHANGED <<state, pc, thrown, mxCalls, dns, calls, moreVars, connections, promise, step, smtpMessages,
                   written, writtenAt, timedOut, nData>>

\* smtp.setTimeout(timeout) (index.js:117): the socket emits 'timeout' when it has
\* been idle; the probe registers no listener for it.
OnTimeout ==
    /\ sock = "open"
    /\ ~MicrotaskPending
    /\ ~timedOut
    /\ timedOut' = TRUE
    /\ UNCHANGED <<state, pc, thrown, mxCalls, dns, calls, moreVars, connections, promise, step, smtpMessages,
                   written, writtenAt, endCalls, finishCbs, sock, nData, errored>>

\* the server closes the connection; the probe registers no listener for 'end' or 'close'
OnClose ==
    /\ sock = "open"
    /\ ~MicrotaskPending
    /\ sock' = "destroyed"
    /\ UNCHANGED <<state, pc, thrown, mxCalls, dns, calls, moreVars, connections, promise, step, smtpMessages,
                   written, writtenAt, endCalls, finishCbs, timedOut, nData, errored>>

\* 'finish': the callbacks given to smtp.end run (index.js:124-126, 131-133)
OnFinish ==
    /\ finishCbs # <<>>
    /\ ~MicrotaskPending
    /\ promise' = SettleAll(promise, finishCbs)
    /\ finishCbs' = <<>>
    /\ UNCHANGED <<state, pc, thrown, mxCalls, dns, calls, moreVars, connections, step, smtpMessages,
                   written, writtenAt, endCalls, sock, timedOut, nData, errored>>

(***************************************************************************)
(* check() (index.js:165-227), one action per stretch between two awaits.  *)
(***************************************************************************)
\* the Promise executor of resolveSmtpMailbox (index.js:103-117): one connection
\* to the first record's exchange, step 0, an empty transcript
ProbeStart(mxRecords) ==
    /\ connections' = Append(connections, mxRecords[1].exchange)
    /\ promise' = "pending"
    /\ sock' = "open"
    /\ step' = 0
    /\ smtpMessages' = <<>>
    /\ UNCHANGED <<written, writtenAt, endCalls, finishCbs, timedOut, nData, errored>>

\* check() up to its first await (index.js:165-180)
CheckStartNoReturn ==
    /\ pc = "constructed"
    /\ LET isValidPattern == resolvePattern(state.emailAddress, state.invalidMailboxKeywords) IN
       /\ state' = [state EXCEPT !.isValidPattern = isValidPattern,
                                 !.result = IF isValidPattern THEN @ ELSE PatternInvalidResult]
       /\ pc' = "awaitMx"
       /\ mxCalls' = mxCalls + 1
    /\ calls' = calls + 1
    /\ UNCHANGED <<thrown, dns, probeVars, moreVars>>

CheckStart ==
    /\ pc = "constructed"
    /\ LET isValidPattern == resolvePattern(state.emailAddress, state.invalidMailboxKeywords) IN
       IF ~isValidPattern
       THEN /\ state' = [state EXCEPT !.isValidPattern = isValidPattern,
                                      !.result = PatternInvalidResult]
            /\ pc' = "returned"
            /\ UNCHANGED mxCalls
       ELSE /\ state' = [state EXCEPT !.isValidPattern = isValidPattern]
            /\ pc' = "awaitMx"
            /\ mxCalls' = mxCalls + 1
    /\ calls' = calls + 1
    /\ UNCHANGED <<thrown, dns, probeVars, moreVars>>

\* const isValidMx = mxRecords.length > 0 (index.js:181)
IsValidMx(mxRecords) == Len(mxRecords) > 0

\* check() from the answer of the MX lookup to its second await (index.js:180-201)
CheckAfterMx(answer) ==
    /\ pc = "awaitMx"
    /\ dns' = <<answer>>
    /\ LET r == resolveMx(answer) IN
       IF r.threw
       THEN /\ pc' = "thrown"
            /\ thrown' = MxFailedError
            /\ UNCHANGED <<state, probeVars>>
       ELSE LET mxRecords == r.value
                isValidMx == IsValidMx(mxRecords)
            IN  /\ UNCHANGED thrown
                /\ IF ~isValidMx
                   THEN /\ state' = [state EXCEPT !.mxRecords = mxRecords,
                                                  !.isValidMx = isValidMx,
                                                  !.result = MxInvalidResult]
                        /\ pc' = "returned"
                        /\ UNCHANGED probeVars
                   ELSE /\ state' = [state EXCEPT !.mxRecords = mxRecords,
                                                  !.isValidMx = isValidMx]
                        /\ pc' = "awaitProbe"
                        /\ IF mxRecords = <<>>
                           THEN \* mxRecords[0].exchange throws in the executor: the promise rejects
                                /\ promise' = "rejected"
                                /\ UNCHANGED <<connections, step, smtpMessages, written, writtenAt,
                                               endCalls, finishCbs, sock, timedOut, nData, errored>>
                           ELSE ProbeStart(mxRecords)
    /\ UNCHANGED <<mxCalls, calls, moreVars>>

\* the verdict on a transcript (index.js:203-222)
MailboxVerdictSecond(msgs) ==
    IF Len(msgs) = 3
    THEN IF NumEq(msgs[2].status, 250)
         THEN [result |-> MailboxValidResult, isValidMailbox |-> TRUE]
         ELSE [result |-> MailboxInvalidResult, isValidMailbox |-> FALSE]
    ELSE [result |-> MailboxUnknownResult, isValidMailbox |-> FALSE]

MailboxVerdict(msgs) ==
    IF Len(msgs) = 3
    THEN IF NumEq(msgs[3].status, 250)
         THEN [result |-> MailboxValidResult, isValidMailbox |-> TRUE]
         ELSE [result |-> MailboxInvalidResult, isValidMailbox |-> FALSE]
    ELSE [result |-> MailboxUnknownResult, isValidMailbox |-> FALSE]

\* the probe resolved: this.state.smtpMessages = smtpMessages and the verdict (index.js:202-223)
ProbeResolved ==
    LET verdict == MailboxVerdict(smtpMessages) IN
    /\ state' = [state EXCEPT !.smtpMessages = "probe",
                              !.result = verdict.result,
                              !.isValidMailbox = verdict.isValidMailbox]
    /\ pc' = "returned"
    /\ UNCHANGED thrown

\* the probe rejected: catch (err) { throw new Error('Mailbox check failed.') } (index.js:224-226)
ProbeRejectedPartial ==
    /\ state' = [state EXCEPT !.smtpMessages = "probe",
                              !.result = MailboxUnknownResult]
    /\ pc' = "returned"
    /\ UNCHANGED thrown

ProbeRejected ==
    /\ pc' = "thrown"
    /\ thrown' = MailboxFailedError
    /\ UNCHANGED state

\* check() after the probe settled (index.js:193-226)
CheckAfterProbe ==
    /\ pc = "awaitProbe"
    /\ promise \in {"resolved", "rejected"}
    /\ IF promise = "rejected" THEN ProbeRejected ELSE ProbeResolved
    /\ UNCHANGED <<mxCalls, dns, calls, probeVars, moreVars>>

(***************************************************************************)
(* The specifications.                                                     *)
(***************************************************************************)
InitProbe ==
    /\ pc = "constructed"
    /\ thrown = ""
    /\ mxCalls = 0
    /\ dns = <<>>
    /\ connections = <<>>
    /\ promise = "none"
    /\ step = 0
    /\ smtpMessages = <<>>
    /\ written = <<>>
    /\ writtenAt = <<>>
    /\ endCalls = 0
    /\ finishCbs = <<>>
    /\ sock = "none"
    /\ timedOut = FALSE
    /\ nData = 0
    /\ errored = "no"
    /\ calls = 0
    /\ oldMessages = <<>>

Init ==
    /\ \E cfg \in Configs : state = Constructor(cfg)
    /\ InitProbe
    /\ pair = <<>>

Next ==
    \/ CheckStart
    \/ \E answer \in DnsAnswers : CheckAfterMx(answer)
    \/ \E data \in Replies : OnData(data)
    \/ OnError
    \/ OnTimeout
    \/ OnClose
    \/ OnFinish
    \/ CheckAfterProbe

Spec == Init /\ [][Next]_vars

\* Node runs every queued callback and microtask: the callbacks of smtp.end and
\* the continuation of check().  The events of the network are under no fairness.
FairSpec == Spec /\ WF_vars(OnFinish) /\ WF_vars(CheckAfterProbe)

\* the same for the instance constructed with the valid address and the defaults
InitOne ==
    /\ state = Constructor([emailAddress |-> AddrValid, invalidMailboxKeywords |-> <<>>,
                            timeout |-> 0, mailFrom |-> <<>>])
    /\ InitProbe
    /\ pair = <<>>

FairSpecOne == InitOne /\ [][Next]_vars /\ WF_vars(OnFinish) /\ WF_vars(CheckAfterProbe)

(***************************************************************************)
(* The probe's script.                                                     *)
(***************************************************************************)
\* every reply received so far carried a status code greater than 200
AllRepliesAbove200 == \A i \in 1..Len(smtpMessages) : smtpMessages[i].status > 200

\* C1: in a session where the greeting and every later reply carry a status
\* code greater than 200, the probe has written exactly the three commands
\* HELO <mx host>, MAIL FROM: <sender>, RCPT TO: <address>, in this order, when
\* it has closed the connection and resolved.
C1_ThreeCommandsWritten ==
    (promise = "resolved" /\ AllRepliesAbove200) =>
        /\ endCalls > 0
        /\ Len(written) = 3
        /\ written[1] = [verb |-> "HELO", arg |-> connections[1]]
        /\ written[2] = [verb |-> "MAIL FROM", arg |-> state.mailFrom]
        /\ written[3] = [verb |-> "RCPT TO", arg |-> state.emailAddress]

\* C2: whenever the probe resolves, the transcript has exactly 3 entries and the
\* status of the entry whose command is RCPT TO (the third) came with a reply
\* that arrived after RCPT TO had been written to the socket.
C2_RcptVerdictIsRcptReply ==
    promise = "resolved" =>
        /\ Len(smtpMessages) = 3
        /\ smtpMessages[3].command.verb = "RCPT TO"
        /\ \E k \in 1..writtenAt[3] : written[k].verb = "RCPT TO"

\* C3: once the socket's inactivity timeout has fired while the probe is
\* pending, the probe does not stay pending forever (it is to end the socket
\* and reject).
C3_TimeoutSettles ==
    (timedOut /\ promise = "pending") ~> (promise # "pending")

\* C4: in every state where the probe's promise is resolved or rejected, end
\* has been called on the probe's socket.
C4_SettledOnlyAfterEnd ==
    promise \in {"resolved", "rejected"} => endCalls > 0

C4_Witness ==
    /\ promise = "rejected"
    /\ endCalls > 0
    /\ Len(smtpMessages) = 1

(***************************************************************************)
(* The gates of check().                                                   *)
(***************************************************************************)
\* C5: if the probe's promise rejects, check() throws an Error whose message
\* is "Mailbox check failed." and returns no result; the entries recorded
\* before the failure are not exposed: state.smtpMessages is empty and
\* isValidMailbox is false.
C5_ProbeFailureThrows ==
    (promise = "rejected" /\ ~MicrotaskPending) =>
        /\ pc = "thrown"
        /\ thrown = "Mailbox check failed."
        /\ state.result = ""
        /\ StateSmtpMessages = <<>>
        /\ state.isValidMailbox = FALSE

C5_Witness ==
    /\ promise = "rejected"
    /\ pc = "thrown"
    /\ Len(smtpMessages) = 2

\* C6: when the probe resolves with transcript T, check() returns with the
\* verdict T alone determines: 3 entries and third status 250: isValidMailbox
\* and "Mailbox is valid."; 3 entries and another third status: not
\* isValidMailbox and "Mailbox is invalid."; fewer than 3 entries: not
\* isValidMailbox and "Could not validate mailbox.".
C6_VerdictFromTranscript ==
    [][ (pc = "awaitProbe" /\ promise = "resolved") =>
          LET T == smtpMessages IN
          /\ pc' = "returned"
          /\ (Len(T) = 3 /\ T[3].status = 250) =>
                (state'.isValidMailbox = TRUE /\ state'.result = "Mailbox is valid.")
          /\ (Len(T) = 3 /\ T[3].status # 250) =>
                (state'.isValidMailbox = FALSE /\ state'.result = "Mailbox is invalid.")
          /\ Len(T) < 3 =>
                (state'.isValidMailbox = FALSE /\ state'.result = "Could not validate mailbox.")
      ]_vars

C6_Witness ==
    /\ pc = "returned"
    /\ promise = "resolved"
    /\ Len(smtpMessages) = 3
    /\ smtpMessages[2].status # 250
    /\ smtpMessages[3].status = 250
    /\ state.isValidMailbox

\* C7: whenever MX resolution yields an empty list, the DNS lookup failing
\* included, check() returns normally with result "Email server is invalid or
\* not available.", isValidMx false and smtpMessages empty, and the probe is
\* not invoked: no connection is opened.
C7_NoMxReturnsServerInvalid ==
    (dns # <<>> /\ (dns[1].err \/ dns[1].records = <<>>)) =>
        /\ pc = "returned"
        /\ thrown = ""
        /\ state.result = "Email server is invalid or not available."
        /\ state.isValidMx = FALSE
        /\ StateSmtpMessages = <<>>
        /\ connections = <<>>
        /\ promise = "none"
        /\ sock = "none"

C7_Witness ==
    /\ dns # <<>>
    /\ dns[1].err
    /\ pc = "returned"
    /\ state.isValidPattern

\* C8: if the pattern gate finds the address invalid, check() returns with
\* result "Email pattern is invalid." and neither the MX resolver nor the probe
\* is invoked in that run.
C8_InvalidPatternStops ==
    (pc # "constructed" /\ state.isValidPattern = FALSE) =>
        /\ pc = "returned"
        /\ state.result = "Email pattern is invalid."
        /\ mxCalls = 0
        /\ dns = <<>>
        /\ connections = <<>>
        /\ promise = "none"

C8_Witness ==
    /\ pc = "returned"
    /\ state.isValidPattern = FALSE
    /\ state.result = "Email pattern is invalid."

\* the least priority number among the records of the DNS answer
IsBestRecord(r, records) ==
    /\ r \in Range(records)
    /\ \A q \in Range(records) : r.priority <= q.priority

\* C10: in one run of check() the probe opens at most one connection, to the
\* exchange of a resolved MX record with the lowest priority number; when that
\* connection fails or the session stalls no second connection is opened.
C10_OneConnectionToBestMx ==
    /\ Len(connections) <= 1
    /\ connections # <<>> =>
          /\ dns # <<>>
          /\ ~dns[1].err
          /\ \E r \in Range(dns[1].records) :
                IsBestRecord(r, dns[1].records) /\ r.exchange = connections[1]

C10_Witness ==
    /\ Len(connections) = 1
    /\ Len(dns[1].records) = 2
    /\ dns[1].records[1].priority > dns[1].records[2].priority
    /\ sock = "destroyed"
    /\ promise = "rejected"

(***************************************************************************)
(* The pattern validator on its own: every address of at most MaxLen       *)
(* characters over PatternAlphabet, and some longer ones, with every       *)
(* deny-list of DenyLists.                                                 *)
(***************************************************************************)
PatternAlphabet == {"a", "1", ".", "@"}

RECURSIVE StringsUpTo(_, _)
StringsUpTo(A, n) ==
    IF n = 0 THEN {<<>>}
    ELSE LET shorter == StringsUpTo(A, n - 1) IN
         shorter \cup {Append(t, c) : t \in {u \in shorter : Len(u) = n - 1}, c \in A}

PatternSamples ==
    { <<"a","@","[","1",".","1","2",".","1","2","3",".","1","]">>,
      <<"a","@","[","1",".","1","2",".","1","2","3","4",".","1","]">>,
      <<"a","@","[","1",".","1","2",".","1","]">>,
      <<"\"","a","@","a","\"","@","a",".","a","a">>,
      <<"\"","a","\"","@","a",".","a","a">>,
      <<"\"","\"","@","a",".","a","a">>,
      <<"a"," ","a","@","a",".","a","a">>,
      <<"a","@","a","-","1",".","A","a">>,
      <<"a","@","a",".","a","a","\n">> }

PatternAddresses == StringsUpTo(PatternAlphabet, MaxLen) \cup PatternSamples

DenyLists ==
    { <<>>,
      <<<<"a">>>>,
      <<<<"1">>, <<"a",".","a">>, <<"\"","a">>>> }

InitPattern ==
    /\ \E e \in PatternAddresses, k \in DenyLists :
          state = Constructor([emailAddress |-> e, invalidMailboxKeywords |-> k,
                               timeout |-> 0, mailFrom |-> <<>>])
    /\ InitProbe
    /\ pair = <<>>

NextPattern == CheckStart

SpecPattern == InitPattern /\ [][NextPattern]_vars

(***************************************************************************)
(* The address grammar, stated on the parts of an address.                 *)
(***************************************************************************)
NoEmptyPiece(t) ==
    /\ Len(t) >= 1
    /\ t[1] # "."
    /\ t[Len(t)] # "."
    /\ \A k \in 1..(Len(t) - 1) : ~(t[k] = "." /\ t[k + 1] = ".")

\* atoms separated by single dots
IsDotAtom(t) ==
    /\ NoEmptyPiece(t)
    /\ \A k \in 1..Len(t) : t[k] = "." \/ t[k] \notin AtomExcluded

\* a quoted string: anything on one line, not empty, between two double quotes
IsQuotedString(t) ==
    /\ Len(t) >= 3
    /\ t[1] = "\""
    /\ t[Len(t)] = "\""
    /\ \A k \in 2..(Len(t) - 1) : t[k] \notin LineTerminator

\* labels of letters, digits and hyphens separated by single dots, at least
\* two of them, the last made of two letters or more
IsHostName(t) ==
    /\ NoEmptyPiece(t)
    /\ \A k \in 1..Len(t) : t[k] = "." \/ t[k] \in Lower \cup Upper \cup Digit \cup {"-"}
    /\ \E d \in 1..Len(t) :
          /\ t[d] = "."
          /\ Len(t) - d >= 2
          /\ \A k \in (d + 1)..Len(t) : t[k] \in Lower \cup Upper

\* four groups of one to three digits, separated by dots, in square brackets
IsIpLiteral(t) ==
    /\ Len(t) >= 2
    /\ t[1] = "["
    /\ t[Len(t)] = "]"
    /\ LET groups == Split(SubSeq(t, 2, Len(t) - 1), ".") IN
       /\ Len(groups) = 4
       /\ \A g \in 1..4 : /\ Len(groups[g]) \in 1..3
                          /\ \A k \in 1..Len(groups[g]) : groups[g][k] \in Digit

\* local-part, '@', domain or bracketed IPv4 literal
MatchesGrammar(e) ==
    \E i \in 1..Len(e) :
        /\ e[i] = "@"
        /\ LET local == SubSeq(e, 1, i - 1)
               domain == SubSeq(e, i + 1, Len(e))
           IN  /\ IsDotAtom(local) \/ IsQuotedString(local)
               /\ IsHostName(domain) \/ IsIpLiteral(domain)

\* the substring of e before its first '@' (all of e when it holds none)
LocalPartOf(e) ==
    LET n == CHOOSE n \in 0..Len(e) :
                 /\ \A k \in 1..n : e[k] # "@"
                 /\ n = Len(e) \/ e[n + 1] = "@"
    IN  SubSeq(e, 1, n)

RegexTestIsGrammar ==
    RegexTest(state.emailAddress) <=> MatchesGrammar(state.emailAddress)

(***************************************************************************)
(* The probe's handlers.                                                   *)
(***************************************************************************)
IsPrefix(a, b) == Len(a) <= Len(b) /\ SubSeq(b, 1, Len(a)) = a

\* a data event was delivered in this step
DataArrived == nData' = nData + 1

\* the status parsed from the data event of this step
ArrivedStatus == smtpMessages'[Len(smtpMessages')].status

\* C12: when a reply arrives whose parsed status code is <= 200, the probe
\* appends one transcript entry and does nothing else: no command is written,
\* the step counter is unchanged, the socket is not ended and the promise is
\* not settled.
C12_LowStatusOnlyRecords ==
    [][ (DataArrived /\ ArrivedStatus # NaN /\ ArrivedStatus <= 200) =>
          /\ Len(smtpMessages') = Len(smtpMessages) + 1
          /\ IsPrefix(smtpMessages, smtpMessages')
          /\ written' = written
          /\ step' = step
          /\ endCalls' = endCalls
          /\ finishCbs' = finishCbs
          /\ sock' = sock
          /\ promise' = promise
      ]_vars

C12_Witness ==
    /\ Len(smtpMessages) = 2
    /\ smtpMessages[1].status = 220
    /\ smtpMessages[2].status = 200
    /\ step = 1
    /\ Len(written) = 1
    /\ endCalls = 0
    /\ promise = "pending"
    /\ sock = "open"

\* C13: under any sequence of data events the transcript is append-only and
\* holds at most 3 entries.
C13_TranscriptAppendOnlyAtMost3 ==
    [][ /\ IsPrefix(smtpMessages, smtpMessages')
        /\ Len(smtpMessages') <= 3
      ]_vars

\* C14: after check() has returned its result, the smtpMessages sequence of
\* that result never changes again: data events that arrive after the probe
\* resolved add no entry to the returned transcript.
C14_ReturnedTranscriptFrozen ==
    [][ (pc = "returned" /\ pc' = "returned") => StateSmtpMessages' = StateSmtpMessages ]_vars

\* C17: the probe never pipelines: nothing is written before the first reply,
\* each write comes with exactly one reply of status > 200, the k-th command
\* written is the k-th command of the script, and the number of commands
\* written always equals the step counter, which only increases.
C17_NoPipelining ==
    /\ [](promise # "none" =>
            /\ Len(written) = step
            /\ nData = 0 => written = <<>>
            /\ \A k \in 1..Len(written) : written[k] = commands[k])
    /\ [][ /\ step' >= step
           /\ written' # written =>
                 /\ Len(written') = Len(written) + 1
                 /\ IsPrefix(written, written')
                 /\ DataArrived
                 /\ ArrivedStatus > 200
         ]_vars

C17_Witness ==
    /\ step = 2
    /\ Len(written) = 2
    /\ Len(smtpMessages) = 3
    /\ smtpMessages[2].status = 200
    /\ promise = "pending"

\* C18: under any interleaving of data and error events the probe never writes
\* a command to its socket after it has called end on that socket.
C18_NoWriteAfterEnd ==
    [][ endCalls > 0 => written' = written ]_vars

C18_Witness ==
    /\ endCalls = 2
    /\ nData = 4
    /\ Len(written) = 2

\* a reply of status > 200 was received at script step k
ReplyAbove200AtStep(k) ==
    \E i \in 1..Len(smtpMessages) : smtpMessages[i].status > 200 /\ writtenAt[i] = k

\* C19: whenever the probe resolves it has received a reply of status > 200 at
\* each of the steps 0, 1 and 2, so it never resolves with fewer than 3
\* transcript entries: a session that stalls or ends early never resolves.
C19_ResolvesOnlyAfterThreeAccepts ==
    (promise = "resolved" \/ "resolve" \in Range(finishCbs)) =>
        /\ Len(smtpMessages) >= 3
        /\ \A k \in 0..2 : ReplyAbove200AtStep(k)

C19_Witness ==
    /\ promise = "resolved"
    /\ Len(smtpMessages) = 4
    /\ smtpMessages[1].status <= 200

(***************************************************************************)
(* A socket error during the session.                                      *)
(***************************************************************************)
\* C15: when the socket's 'error' event comes while the session is under way
\* (before the greeting, or while the reply at step 0, 1 or 2 is awaited: end
\* has not been called yet), the probe has called end on the socket, its
\* promise is never resolved with a transcript, and it is eventually rejected.
C15_ErrorRejects ==
    /\ [](errored = "awaiting" => (endCalls > 0 /\ promise # "resolved"))
    /\ ((errored = "awaiting") ~> (promise = "rejected"))

\* the error came while the reply to the second written command was awaited
C15_Witness ==
    /\ errored = "awaiting"
    /\ step = 2
    /\ Len(smtpMessages) = 3
    /\ promise = "rejected"
    /\ pc = "thrown"

(***************************************************************************)
(* Calling check() again on the same instance.                             *)
(***************************************************************************)
\* a further call of check() up to its first await (index.js:165-180), made when
\* the previous call has returned or thrown and its socket is finished.  Nothing
\* in check() resets this.state; a new probe will get a closure of its own, while
\* state.smtpMessages keeps referring to the array of the previous probe.
CheckAgain ==
    /\ pc \in {"returned", "thrown"}
    /\ calls < MaxChecks
    /\ sock # "open"
    /\ finishCbs = <<>>
    /\ calls' = calls + 1
    /\ LET isValidPattern == resolvePattern(state.emailAddress, state.invalidMailboxKeywords)
           ref == IF state.smtpMessages = "own" THEN "own" ELSE "old"
       IN  IF ~isValidPattern
           THEN /\ state' = [state EXCEPT !.isValidPattern = isValidPattern,
                                          !.result = PatternInvalidResult,
                                          !.smtpMessages = ref]
                /\ pc' = "returned"
                /\ UNCHANGED mxCalls
           ELSE /\ state' = [state EXCEPT !.isValidPattern = isValidPattern,
                                          !.smtpMessages = ref]
                /\ pc' = "awaitMx"
                /\ mxCalls' = mxCalls + 1
    /\ oldMessages' = StateSmtpMessages
    /\ thrown' = ""
    /\ dns' = <<>>
    /\ promise' = "none"
    /\ sock' = "none"
    /\ step' = 0
    /\ smtpMessages' = <<>>
    /\ written' = <<>>
    /\ writtenAt' = <<>>
    /\ endCalls' = 0
    /\ timedOut' = FALSE
    /\ errored' = "no"
    /\ UNCHANGED <<connections, finishCbs, nData, pair>>

NextReuse ==
    \/ Next
    \/ CheckAgain

SpecReuse == Init /\ [][NextReuse]_vars

\* C16: whenever a call of check() has returned a result, the flag of every
\* gate the run did not reach is false: isValidMx and isValidMailbox after a
\* stop at the pattern gate, isValidMailbox after a stop at the MX gate.
C16_UnreachedGatesFalse ==
    pc = "returned" =>
        /\ (state.result = PatternInvalidResult) => (~state.isValidMx /\ ~state.isValidMailbox)
        /\ (state.result = MxInvalidResult) => ~state.isValidMailbox

(***************************************************************************)
(* Two instances side by side.  Everything a probe changes lives in the    *)
(* closure of its Promise executor (commands, step, smtpMessages, smtp:    *)
(* index.js:103-114) or in this.state of its instance; the module itself   *)
(* holds no variable.  A running probe is a record, and the handlers are   *)
(* functions from a record to the set of records the handler may leave.    *)
(***************************************************************************)
\* smtp.end(cb) (index.js:124-126, 131-133)
EndOf(p, cb) ==
    IF p.endCalls = 0
    THEN { [p EXCEPT !.endCalls = @ + 1, !.finishCbs = Append(@, cb)] }
    ELSE { [p EXCEPT !.endCalls = @ + 1],
           [p EXCEPT !.endCalls = @ + 1, !.finishCbs = Append(@, cb)] }

\* smtp.on('next', ...) (index.js:119-128)
NextOf(p) ==
    IF p.step < Len(p.cmds) - 1
    THEN { [p EXCEPT !.written = Append(@, p.cmds[p.step + 1]), !.step = @ + 1] }
    ELSE EndOf(p, "resolve")

\* smtp.on('data', ...) (index.js:136-146)
DataOf(p, data) ==
    LET status == ParseInt(Substring(data, 0, 3))
        q == [p EXCEPT !.smtpMessages =
                  Append(@, [command |-> p.cmds[p.step + 1], message |-> data, status |-> status])]
    IN  IF Proceeds(status) THEN NextOf(q) ELSE {q}

\* smtp.on('error', ...) (index.js:130-134)
ErrorOf(p) == EndOf([p EXCEPT !.sock = "destroyed"], "reject")

\* the server closes the connection: no listener
CloseOf(p) == { [p EXCEPT !.sock = "destroyed"] }

\* 'finish': the callbacks given to smtp.end run
FinishOf(p) == { [p EXCEPT !.promise = SettleAll(@, p.finishCbs), !.finishCbs = <<>>] }

\* check() after the probe settled (index.js:193-226)
AfterProbeOf(p) ==
    IF p.promise = "rejected"
    THEN { [p EXCEPT !.pc = "thrown", !.thrown = MailboxFailedError] }
    ELSE LET verdict == MailboxVerdict(p.smtpMessages) IN
         { [p EXCEPT !.pc = "returned", !.result = verdict.result,
                     !.isValidMailbox = verdict.isValidMailbox] }

\* the continuation of the instance's check() is queued as a microtask
PendingOf(p) == p.pc = "awaitProbe" /\ p.promise \in {"resolved", "rejected"}

\* what can happen to one instance: an event of its socket, its queued end
\* callbacks, the continuation of its check()
PairReplies == {Reply250, Reply200}
PairEvents ==
    [kind : {"data"}, data : PairReplies]
        \cup [kind : {"error", "close", "finish", "after"}, data : {<<>>}]

\* the event can happen to a probe in state p
Possible(p, e) ==
    CASE e.kind \in {"data", "error", "close"} -> p.sock = "open" /\ ~PendingOf(p)
      [] e.kind = "finish" -> p.finishCbs # <<>> /\ ~PendingOf(p)
      [] OTHER -> PendingOf(p)

\* the states the handler of event e may leave a probe in
Handle(p, e) ==
    IF ~Possible(p, e) THEN {}
    ELSE CASE e.kind = "data" -> DataOf(p, e.data)
           [] e.kind = "error" -> ErrorOf(p)
           [] e.kind = "close" -> CloseOf(p)
           [] e.kind = "finish" -> FinishOf(p)
           [] OTHER -> AfterProbeOf(p)

\* the same, with the event added to the history of the instance
Step(p, e) == { [q EXCEPT !.events = Append(@, e)] : q \in Handle(p, e) }

\* the two instances verify different addresses at different hosts
PairHosts == << <<"m","1">>, <<"m","2">> >>
PairAddresses == <<AddrValid, AddrDenied>>

\* instance i when the executor of its probe has run (index.js:103-117)
PairStart(i) ==
    [cmds |-> Commands(PairHosts[i], Sender, PairAddresses[i]),
     step |-> 0, smtpMessages |-> <<>>, written |-> <<>>,
     endCalls |-> 0, finishCbs |-> <<>>, promise |-> "pending", sock |-> "open",
     pc |-> "awaitProbe", result |-> "", isValidMailbox |-> FALSE, thrown |-> "",
     events |-> <<>>]

\* let step = 0 (index.js:112) is declared inside the executor: the handlers of
\* instance i count in the closure of instance i
StepOwnerShared(i) == 1

StepOwner(i) == i

\* event e happens to instance i; microtasks of either instance run before any event
PairEvent(i, e) ==
    /\ pair # <<>>
    /\ e.kind # "after" => \A j \in 1..2 : ~PendingOf(pair[j])
    /\ e.kind = "data" => Len(pair[i].smtpMessages) < MaxPairData
    /\ LET o == StepOwner(i)
           p == [pair[i] EXCEPT !.step = pair[o].step]
       IN  \E q \in Step(p, e) : pair' = [pair EXCEPT ![i] = q, ![o].step = q.step]
    /\ UNCHANGED <<state, pc, thrown, mxCalls, dns, calls, oldMessages, probeVars>>

PairData(i, data) == PairEvent(i, [kind |-> "data", data |-> data])
PairError(i) == PairEvent(i, [kind |-> "error", data |-> <<>>])
PairClose(i) == PairEvent(i, [kind |-> "close", data |-> <<>>])
PairFinish(i) == PairEvent(i, [kind |-> "finish", data |-> <<>>])
PairAfterProbe(i) == PairEvent(i, [kind |-> "after", data |-> <<>>])

InitPair ==
    /\ state = Constructor([emailAddress |-> AddrValid, invalidMailboxKeywords |-> <<>>,
                            timeout |-> 0, mailFrom |-> Sender])
    /\ InitProbe
    /\ pair = [i \in 1..2 |-> PairStart(i)]

NextPair ==
    \E i \in 1..2 :
        \/ \E data \in PairReplies : PairData(i, data)
        \/ PairError(i)
        \/ PairClose(i)
        \/ PairFinish(i)
        \/ PairAfterProbe(i)

SpecPair == InitPair /\ [][NextPair]_vars

\* the states a probe that runs alone can be in after the events evs, from the states S
RECURSIVE RunFrom(_, _)
RunFrom(S, evs) ==
    IF evs = <<>> THEN S
    ELSE RunFrom(UNION { Step(p, Head(evs)) : p \in S }, Tail(evs))

RunAlone(i, evs) == RunFrom({PairStart(i)}, evs)

\* the step counter, the transcript and the final result of a run
Observed(p) ==
    [step |-> p.step, smtpMessages |-> p.smtpMessages, pc |-> p.pc, result |-> p.result,
     isValidMailbox |-> p.isValidMailbox, thrown |-> p.thrown]

ProbeRecord ==
    [cmds |-> commands, step |-> step, smtpMessages |-> smtpMessages, written |-> written,
     endCalls |-> endCalls, finishCbs |-> finishCbs, promise |-> promise, sock |-> sock,
     pc |-> pc, result |-> state.result, isValidMailbox |-> state.isValidMailbox,
     thrown |-> thrown, events |-> <<>>]

AllEvents ==
    [kind : {"data"}, data : Replies]
        \cup [kind : {"error", "close", "finish", "after"}, data : {<<>>}]

\* once a probe runs, every step of Spec is a step of the handlers above
HandlersAgree ==
    [][ promise # "none" =>
            \/ ProbeRecord' = ProbeRecord
            \/ \E e \in AllEvents : ProbeRecord' \in Handle(ProbeRecord, e) ]_vars

====
